---- MODULE Spec2Model ----
(***************************************************************************)
(* Summary networks of bayesflow/summary_networks.py: SetTransformer,      *)
(* DeepSet, InvariantNetwork (deprecated alias), SequentialNetwork and     *)
(* SplitNetwork.  A network object is a record holding the attributes its  *)
(* __init__ assigns; a tensor is a nested sequence (batch, set/time,       *)
(* feature) of naturals, all arithmetic taken modulo Modulus.  The layers  *)
(* imported from bayesflow.helper_networks, bayesflow.attention and keras  *)
(* are outside this file; they are modelled by their documented contracts  *)
(* (shape, permutation equivariance / invariance, order sensitivity).      *)
(***************************************************************************)
EXTENDS Integers, Sequences, FiniteSets, TLC

\* ------------------------------------------------------------------ bounds
MaxBatch == 2
MaxSet == 2
MaxDim == 2
MaxLayers == 2
MaxSummary == 2
MaxSeeds == 2
MaxSplits == 2
MaxSubclasses == 1
MaxCalls == 1
HiddenUnits == 2
Modulus == 5

\* ------------------------------------------------------- program constants
DefaultSummaryDim == 10
DefaultNumEquiv == 2
DefaultNumDense == 2
DefaultNumConvLayers == 2

\* ------------------------------------------------------------ tensor tools
\* The sequence t as the tuple of its elements: TLC computes the elements once.
Eval(t) == t \o <<>>

RECURSIVE Sum(_)
Sum(s) == IF s = <<>> THEN 0 ELSE Head(s) + Sum(Tail(s))

RECURSIVE MaxOf(_)
MaxOf(s) == IF Len(s) = 1 THEN s[1]
            ELSE LET m == MaxOf(Tail(s)) IN IF Head(s) > m THEN Head(s) ELSE m

\* Position-weighted sum of a feature vector: a linear form that tells the
\* feature columns apart.
WSum(v) == Sum(Eval([j \in 1..Len(v) |-> j * v[j]]))

\* The linear form of unit k of a layer: the units' forms are independent, so
\* a layer as wide as its input loses nothing of it.
Mix(v, k) == Sum(v) + Sum(SubSeq(v, 1, IF k - 1 < Len(v) THEN k - 1 ELSE Len(v)))

\* Shape of a rank-3 tensor (batch, set, feature) and of a rank-2 tensor.
Shape3(t) == <<Len(t), Len(t[1]), Len(t[1][1])>>
Shape2(t) == <<Len(t), Len(t[1])>>

\* tf.concat(list, axis=-1) of rank-2 tensors sharing the batch axis.
RECURSIVE ConcatRow(_, _)
ConcatRow(parts, b) ==
    IF parts = <<>> THEN <<>> ELSE Head(parts)[b] \o ConcatRow(Tail(parts), b)

ConcatLast(parts) == Eval([b \in 1..Len(parts[1]) |-> ConcatRow(parts, b)])

\* Feature columns lo+1 .. hi of a rank-2 tensor.
Columns(t, lo, hi) == Eval([b \in 1..Len(t) |-> SubSeq(t[b], lo + 1, hi)])

\* Reordering of the set axis by the permutation p of 1..n.
PermuteSet(t, p) == Eval([b \in 1..Len(t) |-> Eval([j \in 1..Len(t[b]) |-> t[b][p[j]]])])

Perms(n) == {p \in [1..n -> 1..n] : \A i, j \in 1..n : p[i] = p[j] => i = j}

\* Weight of the layer at position pos of the object with identity id.
Weight(id, pos) == (3 * id + pos) % Modulus

\* --------------------------------------------------------- primitive layers
\* keras Dense on the last axis.
DenseInit(units, w) == [units |-> units, w |-> w, cls |-> "Dense"]

DenseCall(l, v) ==
    Eval([k \in 1..l.units |-> (l.w + Mix(v, k)) % Modulus])

RECURSIVE DenseStack(_, _)
DenseStack(layers, v) ==
    IF layers = <<>> THEN v ELSE DenseStack(Tail(layers), DenseCall(Head(layers), v))

DenseLayers(n, units, w) == Eval([i \in 1..n |-> DenseInit(units, (w + i) % Modulus)])

PoolingNames == {"mean", "max"}

\* helper_networks.InvariantModule: construction fails on a pooling_fun it
\* does not understand.
InvariantModuleInit(settings, w) ==
    IF settings.pooling_fun \in PoolingNames
    THEN [ok |-> TRUE,
          obj |-> [cls |-> "InvariantModule", pooling_fun |-> settings.pooling_fun,
                   s1 |-> DenseLayers(settings.num_dense_s1, settings.dense_s1_args.units, w),
                   s2 |-> DenseLayers(settings.num_dense_s2, settings.dense_s2_args.units, w + 1)]]
    ELSE [ok |-> FALSE, obj |-> [cls |-> "ConfigurationError"]]

Pool(name, vs) ==
    Eval([k \in 1..Len(vs[1]) |->
            LET col == Eval([j \in 1..Len(vs) |-> vs[j][k]])
            IN  IF name = "mean" THEN Sum(col) \div Len(vs) ELSE MaxOf(col)])

InvariantRow(m, row) ==
    LET inner == Eval([j \in 1..Len(row) |-> DenseStack(m.s1, row[j])])
    IN  DenseStack(m.s2, Pool(m.pooling_fun, inner))

InvariantModuleCall(m, t) == Eval([b \in 1..Len(t) |-> InvariantRow(m, t[b])])

\* helper_networks.EquivariantModule: every element is combined with an
\* invariant summary of the whole set.
EquivariantModuleInit(settings, w) ==
    LET inv == InvariantModuleInit(settings, w)
    IN  IF inv.ok
        THEN [ok |-> TRUE,
              obj |-> [cls |-> "EquivariantModule",
                       invariant_module |-> inv.obj,
                       s3 |-> DenseLayers(settings.num_dense_s3, settings.dense_s3_args.units, w + 2)]]
        ELSE inv

EquivariantModuleCall(m, t) ==
    Eval([b \in 1..Len(t) |->
            LET inv == InvariantRow(m.invariant_module, t[b])
            IN  Eval([j \in 1..Len(t[b]) |-> DenseStack(m.s3, t[b][j] \o inv)])])

\* Invariant context of a set used by the attention layers.
Context(row) == Sum(Eval([j \in 1..Len(row) |-> WSum(row[j]) * WSum(row[j]) + 1]))

\* attention.SelfAttentionBlock: (batch, set, dim) -> (batch, set, dim).
SelfAttentionBlockInit(input_dim, w) ==
    [w |-> w, cls |-> "SelfAttentionBlock", input_dim |-> input_dim, num_inducing_points |-> 0]

\* attention.InducedSelfAttentionBlock.
InducedSelfAttentionBlockInit(input_dim, num_inducing_points, w) ==
    [w |-> w, cls |-> "InducedSelfAttentionBlock", input_dim |-> input_dim,
     num_inducing_points |-> num_inducing_points]

AttentionBlockCall(blk, t) ==
    Eval([b \in 1..Len(t) |->
            LET ctx == Context(t[b])
            IN  Eval([j \in 1..Len(t[b]) |->
                    LET form == WSum(t[b][j])
                    IN  Eval([k \in 1..blk.input_dim |->
                            (t[b][j][k] + blk.w + blk.num_inducing_points
                                + k * ctx + form) % Modulus])])])

\* attention.PoolingWithAttention: num_seeds summaries of summary_dim
\* features each, flattened.
PoolingWithAttentionInit(summary_dim, num_seeds, w) ==
    [w |-> w, cls |-> "PoolingWithAttention", summary_dim |-> summary_dim,
     num_seeds |-> num_seeds]

PoolingWithAttentionCall(p, t) ==
    Eval([b \in 1..Len(t) |->
            LET ctx == Context(t[b])
            IN  Eval([q \in 1..(p.num_seeds * p.summary_dim) |-> (p.w + q * ctx) % Modulus])])

\* helper_networks.MultiConv1D: keeps the time axis, mixes neighbours.
MultiConv1DInit(w) == [w |-> w, cls |-> "MultiConv1D"]

MultiConv1DCall(c, t) ==
    Eval([b \in 1..Len(t) |->
            Eval([j \in 1..Len(t[b]) |->
                LET before == IF j = 1 THEN 0 ELSE WSum(t[b][j - 1])
                IN  Eval([k \in 1..HiddenUnits |->
                        (c.w + Mix(t[b][j], k) + 2 * before) % Modulus])])])

\* keras LSTM returning the final hidden state.
LSTMInit(units, w) == [units |-> units, w |-> w, cls |-> "LSTM"]

RECURSIVE LSTMRow(_, _, _)
LSTMRow(l, h, row) ==
    IF row = <<>> THEN h
    ELSE LSTMRow(l, Eval([k \in 1..l.units |->
                             (2 * h[k] + Mix(Head(row), k) + l.w) % Modulus]),
                 Tail(row))

LSTMCall(l, t) == Eval([b \in 1..Len(t) |-> LSTMRow(l, Eval([k \in 1..l.units |-> 0]), t[b])])

LayerCall(l, t) ==
    CASE l.cls = "EquivariantModule" -> EquivariantModuleCall(l, t)
      [] l.cls \in {"SelfAttentionBlock", "InducedSelfAttentionBlock"} -> AttentionBlockCall(l, t)
      [] l.cls = "MultiConv1D" -> MultiConv1DCall(l, t)

\* keras Sequential: the layers in the order they were added; no layers, no
\* change.
RECURSIVE SequentialCall(_, _)
SequentialCall(layers, t) ==
    IF layers = <<>> THEN t ELSE SequentialCall(Tail(layers), LayerCall(Head(layers), t))

\* ------------------------------------------------------------- "None"
None == -1

\* ----------------------------------------------------------- SetTransformer
\* The loop of __init__: one block is constructed per iteration; it is added
\* to the Sequential inside the else branch only.
RECURSIVE AttentionLoop(_, _, _, _)
AttentionLoop(k, a, id, stack) ==
    IF k >= a.num_attention_blocks THEN stack
    ELSE IF a.num_inducing_points # None
         THEN LET block == InducedSelfAttentionBlockInit(a.input_dim,
                               a.num_inducing_points, Weight(id, k))
              IN  AttentionLoop(k + 1, a, id, stack)
         ELSE LET block == SelfAttentionBlockInit(a.input_dim, Weight(id, k))
              IN  AttentionLoop(k + 1, a, id, Append(stack, block))

SetTransformerInit(a, id) ==
    [ok |-> TRUE,
     obj |-> [id |-> id,
              cls |-> "SetTransformer",
              attention_blocks |-> AttentionLoop(0, a, id, <<>>),
              pooler |-> PoolingWithAttentionInit(a.summary_dim, a.num_seeds, Weight(id, a.num_attention_blocks))],
     warns |-> 0]

SetTransformerCall(self, x) ==
    LET out == SequentialCall(self.attention_blocks, x)
    IN  PoolingWithAttentionCall(self.pooler, out)

\* ------------------------------------------------------------------ DeepSet
DefaultSettingDenseInvariant == [units |-> HiddenUnits]

DeepSetSettingsDefaultPooling(a) ==
    [pooling_fun |-> "mean", num_dense_s1 |-> DefaultNumDense,
     dense_s1_args |-> DefaultSettingDenseInvariant, num_dense_s2 |-> DefaultNumDense,
     dense_s2_args |-> DefaultSettingDenseInvariant, num_dense_s3 |-> DefaultNumDense,
     dense_s3_args |-> DefaultSettingDenseInvariant]

DeepSetSettings(a) ==
    [pooling_fun |-> a.pooling_fun, num_dense_s1 |-> DefaultNumDense,
     dense_s1_args |-> DefaultSettingDenseInvariant, num_dense_s2 |-> DefaultNumDense,
     dense_s2_args |-> DefaultSettingDenseInvariant, num_dense_s3 |-> DefaultNumDense,
     dense_s3_args |-> DefaultSettingDenseInvariant]

\* cls is the class being instantiated (DeepSet or a subclass of it).
DeepSetInit(cls, a, id) ==
    LET settings == DeepSetSettings(a)
        equiv == Eval([k \in 1..a.num_equiv |-> EquivariantModuleInit(settings, Weight(id, k))])
        inv == InvariantModuleInit(settings, Weight(id, 0))
    IN  IF inv.ok /\ \A k \in 1..a.num_equiv : equiv[k].ok
        THEN [ok |-> TRUE,
              obj |-> [id |-> id,
                       cls |-> cls,
                       inv |-> inv.obj,
                       summary_dim |-> a.summary_dim,
                       equiv_layers |-> Eval([k \in 1..a.num_equiv |-> equiv[k].obj]),
                       out_layer |-> DenseInit(a.summary_dim, Weight(id, a.num_equiv + 1))],
              warns |-> 0]
        ELSE [ok |-> FALSE, obj |-> [cls |-> "ConfigurationError"], warns |-> 0]

DenseCall2(l, t) == Eval([b \in 1..Len(t) |-> DenseCall(l, t[b])])

DenseCall3(l, t) ==
    Eval([b \in 1..Len(t) |-> Eval([j \in 1..Len(t[b]) |-> DenseCall(l, t[b][j])])])

DeepSetCallNoInv(self, x) ==
    LET out_equiv == SequentialCall(self.equiv_layers, x)
    IN  DenseCall3(self.out_layer, out_equiv)

DeepSetCall(self, x) ==
    LET out_equiv == SequentialCall(self.equiv_layers, x)
    IN  DenseCall2(self.out_layer, InvariantModuleCall(self.inv, out_equiv))

\* --------------------------------------------------------- InvariantNetwork
\* __init_subclass__: the number of warnings after one subclassing event.
InvariantNetworkInitSubclass(n) == n + 1

InvariantNetworkInitSilent(cls, a, id) == DeepSetInit(cls, a, id)

\* __init__: warn, then DeepSet.__init__ on the same arguments.
InvariantNetworkInit(cls, a, id) ==
    LET r == DeepSetInit(cls, a, id) IN [r EXCEPT !.warns = 1 + r.warns]

\* -------------------------------------------------------- SequentialNetwork
SequentialNetworkInit(a, id) ==
    [ok |-> TRUE,
     obj |-> [id |-> id,
              cls |-> "SequentialNetwork",
              summary_dim |-> a.summary_dim,
              out_layer |-> DenseInit(a.summary_dim, Weight(id, a.num_conv_layers + 1)),
              net |-> Eval([k \in 1..a.num_conv_layers |-> MultiConv1DInit(Weight(id, k))]),
              lstm |-> LSTMInit(HiddenUnits, Weight(id, 0))],
     warns |-> 0]

SequentialNetworkCallNoLSTM(self, x) ==
    LET out == SequentialCall(self.net, x)
    IN  DenseCall3(self.out_layer, out)

SequentialNetworkCall(self, x) ==
    LET out == SequentialCall(self.net, x)
    IN  DenseCall2(self.out_layer, LSTMCall(self.lstm, out))

\* ------------------------------------------------- calling a (sub-)network
NetworkInit(network_type, kw, id) ==
    CASE network_type = "InvariantNetwork" -> InvariantNetworkInit("InvariantNetwork", kw, id)
      [] network_type = "DeepSet" -> DeepSetInit("DeepSet", kw, id)
      [] network_type = "SequentialNetwork" -> SequentialNetworkInit(kw, id)

NetworkCall(self, x) ==
    CASE self.cls \in {"DeepSet", "InvariantNetwork"} -> DeepSetCall(self, x)
      [] self.cls = "SetTransformer" -> SetTransformerCall(self, x)
      [] self.cls = "SequentialNetwork" -> SequentialNetworkCall(self, x)

\* ------------------------------------------------------------- SplitNetwork
\* Feature columns of the docstring example of split_data_configurator:
\* x[:,:,0] names the split an element belongs to, x[:,:,1] is its datum.
DataDim == 2

\* split_data_configurator(i, x) for the two routing functions used here:
\* "selector" is the docstring example, "column" hands feature column i to
\* split i.
Route(cfg, i, x) ==
    Eval([b \in 1..Len(x) |->
            Eval([j \in 1..Len(x[b]) |->
                IF cfg = "selector"
                THEN LET selector == IF x[b][j][1] = i THEN 1 ELSE 0
                     IN  <<selector, x[b][j][2] * selector>>
                ELSE <<x[b][j][i + 1]>>])])

Routable(cfg, num_splits, x) ==
    IF cfg = "selector" THEN Len(x[1][1]) >= DataDim ELSE Len(x[1][1]) >= num_splits

\* [network_type(**network_kwargs) for _ in range(num_splits)]: the
\* constructor is called once per index; an exception ends the construction.
RECURSIVE BuildNetworks(_, _, _, _)
BuildNetworks(a, id, k, acc) ==
    IF k >= a.num_splits THEN acc
    ELSE LET r == NetworkInit(a.network_type, a.network_kwargs, id + k + 1)
         IN  IF r.ok
             THEN BuildNetworks(a, id, k + 1,
                      [acc EXCEPT !.warns = @ + r.warns, !.obj = Append(@, r.obj)])
             ELSE [ok |-> FALSE, obj |-> <<>>, warns |-> acc.warns + r.warns]

SplitNetworkInitShared(a, id) ==
    LET r == NetworkInit(a.network_type, a.network_kwargs, id + 1)
    IN  IF r.ok
        THEN [ok |-> TRUE,
              obj |-> [id |-> id,
                       cls |-> "SplitNetwork",
                       num_splits |-> a.num_splits,
                       split_data_configurator |-> a.split_data_configurator,
                       networks |-> Eval([k \in 1..a.num_splits |-> r.obj])],
              warns |-> r.warns]
        ELSE [ok |-> FALSE, obj |-> [cls |-> "ConfigurationError"], warns |-> r.warns]

SplitNetworkInit(a, id) ==
    LET r == BuildNetworks(a, id, 0, [ok |-> TRUE, obj |-> <<>>, warns |-> 0])
    IN  IF r.ok
        THEN [ok |-> TRUE,
              obj |-> [id |-> id,
                       cls |-> "SplitNetwork",
                       num_splits |-> a.num_splits,
                       split_data_configurator |-> a.split_data_configurator,
                       networks |-> r.obj],
              warns |-> r.warns]
        ELSE [ok |-> FALSE, obj |-> [cls |-> "ConfigurationError"], warns |-> r.warns]

SplitNetworkCallFirstNetwork(self, x) ==
    ConcatLast(Eval([k \in 1..self.num_splits |->
        NetworkCall(self.networks[1], Route(self.split_data_configurator, k - 1, x))]))

SplitNetworkCallFirstRoute(self, x) ==
    ConcatLast(Eval([k \in 1..self.num_splits |->
        NetworkCall(self.networks[k], Route(self.split_data_configurator, 0, x))]))

\* Element k of the list is networks[k-1] applied to the sub-input of index
\* k-1; the list is concatenated along the last axis.
SplitNetworkCall(self, x) ==
    LET out == Eval([k \in 1..self.num_splits |->
                   NetworkCall(self.networks[k],
                               Route(self.split_data_configurator, k - 1, x))])
    IN  ConcatLast(out)

Forward(self, x) ==
    IF self.cls = "SplitNetwork" THEN SplitNetworkCall(self, x) ELSE NetworkCall(self, x)

SelfAfterCallReversing(self, x) ==
    IF self.cls = "SplitNetwork"
    THEN [self EXCEPT !.networks =
             Eval([k \in 1..Len(self.networks) |-> self.networks[Len(self.networks) + 1 - k]])]
    ELSE self

\* The object after call(): no call() of the file assigns an attribute.
SelfAfterCall(self, x) == self

PlaceResultByArrival(parts, i, r) ==
    LET free == {k \in 1..Len(parts) : parts[k] = <<>>}
        first == CHOOSE k \in free : \A m \in free : k <= m
    IN  [parts EXCEPT ![first] = r]

\* The result of split index i is element i of the list.
PlaceResult(parts, i, r) == [parts EXCEPT ![i + 1] = r]

\* ------------------------------------------------------------------ inputs
Bits == {0, 1}

\* Sets of DataDim-column elements in a batch of one, each set listed once
\* (in non-decreasing order of its elements' codes).
Code(e) == 2 * e[1] + e[2]

DataInputs ==
    {t \in UNION {[1..1 -> [1..n -> [1..DataDim -> Bits]]] : n \in 1..MaxSet} :
        \A j \in 1..(Len(t[1]) - 1) : Code(t[1][j]) <= Code(t[1][j + 1])}

Ramp(b, n, d) ==
    Eval([i \in 1..b |-> Eval([j \in 1..n |-> Eval([k \in 1..d |-> (i + j * k) % 2])])])

\* One tensor per shape.
ShapeInputs == {Ramp(b, n, d) : b \in 1..MaxBatch, n \in 1..MaxSet, d \in 1..MaxDim}

Inputs == DataInputs \cup ShapeInputs

\* An input of shape (2, 5, 3).
ExampleInput == Ramp(2, 5, 3)

SetTransformerArgs ==
    [input_dim : {DataDim}, num_inducing_points : {None, 1}, summary_dim : 1..MaxSummary,
     num_seeds : 1..MaxSeeds, num_attention_blocks : 0..MaxLayers]

DeepSetDefaults ==
    [pooling_fun |-> "mean", summary_dim |-> DefaultSummaryDim, num_equiv |-> DefaultNumEquiv]

DeepSetArgs ==
    [pooling_fun : {"mean", "max", "invalid_name"}, summary_dim : 1..MaxSummary,
     num_equiv : 0..MaxLayers] \cup {DeepSetDefaults}

SequentialNetworkDefaults ==
    [summary_dim |-> DefaultSummaryDim, num_conv_layers |-> DefaultNumConvLayers]

SequentialNetworkArgs ==
    [summary_dim : 1..MaxSummary, num_conv_layers : 0..MaxLayers]
        \cup {SequentialNetworkDefaults}

NetworkKwargs(network_type) ==
    IF network_type = "SequentialNetwork"
    THEN {SequentialNetworkDefaults, [SequentialNetworkDefaults EXCEPT !.summary_dim = 1]}
    ELSE {DeepSetDefaults, [DeepSetDefaults EXCEPT !.summary_dim = 1],
          [DeepSetDefaults EXCEPT !.pooling_fun = "invalid_name"]}

SplitNetworkArgs ==
    UNION {[network_type : {t}, num_splits : 1..MaxSplits, network_kwargs : NetworkKwargs(t),
            split_data_configurator : {"selector", "column"}] :
           t \in {"InvariantNetwork", "SequentialNetwork"}}

\* ------------------------------------------------------------------- state
VARIABLES pc, net, args, x, out, out2, ncalls, warnings, subclasses, parts, order

vars == <<pc, net, args, x, out, out2, ncalls, warnings, subclasses, parts, order>>

NoNet == [cls |-> "None"]

Init ==
    /\ pc = "idle"
    /\ net = NoNet
    /\ args = [kind |-> "none"]
    /\ x = <<>>
    /\ out = <<>>
    /\ out2 = <<>>
    /\ ncalls = 0
    /\ warnings = 0
    /\ subclasses = 0
    /\ parts = <<>>
    /\ order = <<>>

\* class X(InvariantNetwork): ...
DefineSubclass ==
    /\ pc = "idle"
    /\ subclasses < MaxSubclasses
    /\ subclasses' = subclasses + 1
    /\ warnings' = InvariantNetworkInitSubclass(warnings)
    /\ UNCHANGED <<pc, net, args, x, out, out2, ncalls, parts, order>>

\* The outcome r of a constructor call: the object, or an exception.
Construct(kind, a, r) ==
    /\ pc = "idle"
    /\ args' = [a |-> a, kind |-> kind]
    /\ warnings' = warnings + r.warns
    /\ pc' = IF r.ok THEN "built" ELSE "error"
    /\ net' = IF r.ok THEN r.obj ELSE NoNet
    /\ UNCHANGED <<x, out, out2, ncalls, subclasses, parts, order>>

NewSetTransformer == \E a \in SetTransformerArgs :
    Construct("SetTransformer", a, SetTransformerInit(a, 0))

NewDeepSet == \E a \in DeepSetArgs :
    Construct("DeepSet", a, DeepSetInit("DeepSet", a, 0))

NewInvariantNetwork == \E a \in DeepSetArgs :
    Construct("InvariantNetwork", a, InvariantNetworkInit("InvariantNetwork", a, 0))

NewSequentialNetwork == \E a \in SequentialNetworkArgs :
    Construct("SequentialNetwork", a, SequentialNetworkInit(a, 0))

NewSplitNetwork == \E a \in SplitNetworkArgs :
    Construct("SplitNetwork", a, SplitNetworkInit(a, 0))

\* The input axes each class documents for call().
Compatible(t) ==
    CASE args.kind = "SetTransformer" -> Len(t[1][1]) = args.a.input_dim
      [] args.kind = "SplitNetwork" ->
            Routable(net.split_data_configurator, net.num_splits, t)
      [] OTHER -> TRUE

\* The inputs a constructed network is called with; the default DeepSet is
\* also given the (2, 5, 3) input.
CallInputs ==
    IF args.kind = "DeepSet" /\ args.a = DeepSetDefaults
    THEN Inputs \cup {ExampleInput} ELSE Inputs

\* out = net(x)
Call == \E t \in CallInputs :
    /\ pc = "built"
    /\ Compatible(t)
    /\ x' = t
    /\ out' = Forward(net, t)
    /\ net' = SelfAfterCall(net, t)
    /\ ncalls' = 1
    /\ pc' = "called"
    /\ UNCHANGED <<args, out2, warnings, subclasses, parts, order>>

\* net(y), result dropped; y has the feature axis the layers were built for.
CallOther == \E y \in Inputs :
    /\ pc = "called"
    /\ ncalls <= MaxCalls
    /\ Compatible(y)
    /\ Len(y[1][1]) = Len(x[1][1])
    /\ net' = SelfAfterCall(net, y)
    /\ ncalls' = ncalls + 1
    /\ UNCHANGED <<pc, args, x, out, out2, warnings, subclasses, parts, order>>

\* out2 = net(x), the input of the first call once more.
CallAgain ==
    /\ pc = "called"
    /\ out2' = Forward(net, x)
    /\ net' = SelfAfterCall(net, x)
    /\ ncalls' = ncalls + 1
    /\ pc' = "recalled"
    /\ UNCHANGED <<args, x, out, warnings, subclasses, parts, order>>

\* SplitNetwork.call taken apart: the per-split evaluations in any order,
\* then the concatenation.
SplitBegin == \E t \in Inputs :
    /\ pc = "built"
    /\ net.cls = "SplitNetwork"
    /\ Compatible(t)
    /\ x' = t
    /\ parts' = Eval([k \in 1..net.num_splits |-> <<>>])
    /\ order' = <<>>
    /\ pc' = "splitting"
    /\ UNCHANGED <<net, args, out, out2, ncalls, warnings, subclasses>>

SplitEval == \E i \in 0..(MaxSplits - 1) :
    /\ pc = "splitting"
    /\ i < net.num_splits
    /\ \A k \in 1..Len(order) : order[k] # i
    /\ parts' = PlaceResult(parts, i,
                    NetworkCall(net.networks[i + 1],
                                Route(net.split_data_configurator, i, x)))
    /\ order' = Append(order, i)
    /\ UNCHANGED <<pc, net, args, x, out, out2, ncalls, warnings, subclasses>>

SplitConcat ==
    /\ pc = "splitting"
    /\ Len(order) = net.num_splits
    /\ out' = ConcatLast(parts)
    /\ net' = SelfAfterCall(net, x)
    /\ ncalls' = 1
    /\ pc' = "called"
    /\ UNCHANGED <<args, x, out2, warnings, subclasses, parts, order>>

\* Construction and one call of a set or sequence network.
Next ==
    \/ NewSetTransformer
    \/ NewDeepSet
    \/ NewSequentialNetwork
    \/ Call

Spec == Init /\ [][Next]_vars

\* Construction and one call of a SplitNetwork, the call as a whole or
\* split by split.
NextSplit ==
    \/ NewSplitNetwork
    \/ Call
    \/ SplitBegin
    \/ SplitEval
    \/ SplitConcat

SpecSplit == Init /\ [][NextSplit]_vars

\* The deprecated alias: subclassing, instantiation (directly and as the
\* default sub-network of SplitNetwork) and a call.
NextAlias ==
    \/ DefineSubclass
    \/ NewInvariantNetwork
    \/ NewSplitNetwork
    \/ Call

SpecAlias == Init /\ [][NextAlias]_vars

\* Repeated calls of a constructed network.
NextCalls ==
    \/ NewSetTransformer
    \/ NewDeepSet
    \/ NewSequentialNetwork
    \/ NewSplitNetwork
    \/ Call
    \/ CallOther
    \/ CallAgain

SpecCalls == Init /\ [][NextCalls]_vars

\* ------------------------------------------------------------------ claims
Called == pc \in {"called", "recalled"}

\* C1: after SetTransformer construction with num_attention_blocks = n the
\* attention stack holds exactly n blocks: n induced self-attention blocks
\* when num_inducing_points is given, n vanilla blocks when it is None.
C1_StackHoldsEveryBlock ==
    (args.kind = "SetTransformer" /\ pc # "idle") =>
        /\ Len(net.attention_blocks) = args.a.num_attention_blocks
        /\ \A k \in 1..Len(net.attention_blocks) :
              net.attention_blocks[k].cls =
                  IF args.a.num_inducing_points # None
                  THEN "InducedSelfAttentionBlock" ELSE "SelfAttentionBlock"

\* C2: DeepSet and SetTransformer (with and without inducing points) return
\* the same output for every reordering of the set axis of the input, for
\* any number of stacked blocks, zero included.
C2_PermutationInvariant ==
    (Called /\ args.kind \in {"DeepSet", "SetTransformer"}) =>
        \A p \in Perms(Len(x[1])) : Forward(net, PermuteSet(x, p)) = out

C2_Witness ==
    /\ pc = "called"
    /\ args.kind = "DeepSet"
    /\ Len(net.equiv_layers) >= 1
    /\ \E p \in Perms(Len(x[1])) : PermuteSet(x, p) # x

\* C3: SplitNetwork.call(x) is the concatenation along the feature axis, in
\* ascending split index, of networks[i](split_data_configurator(i, x)); with
\* S features per sub-network the output is (batch, num_splits * S) and
\* split i fills columns [i*S, (i+1)*S).
C3_SplitConcatenation ==
    (Called /\ args.kind = "SplitNetwork" /\ order = <<>>) =>
        LET S == args.a.network_kwargs.summary_dim
        IN  /\ Shape2(out) = <<Len(x), net.num_splits * S>>
            /\ \A i \in 0..(net.num_splits - 1) :
                  Columns(out, i * S, (i + 1) * S) =
                      NetworkCall(net.networks[i + 1],
                                  Route(net.split_data_configurator, i, x))

C3_Witness ==
    /\ pc = "called"
    /\ args.kind = "SplitNetwork"
    /\ order = <<>>
    /\ net.num_splits >= 2
    /\ Len(x) >= 2
    /\ Columns(out, 0, net.networks[1].summary_dim)
           # Columns(out, net.networks[1].summary_dim, 2 * net.networks[1].summary_dim)

\* C4: two inputs that give split j the same sub-input give the same output
\* columns of split j, whatever the other splits receive.
C4_SplitIndependence ==
    (Called /\ args.kind = "SplitNetwork" /\ order = <<>>) =>
        LET S == args.a.network_kwargs.summary_dim
            cfg == net.split_data_configurator
        IN  \A t \in Inputs :
                (Len(t) = Len(x) /\ Len(t[1]) = Len(x[1]) /\ Compatible(t)) =>
                    LET other == Forward(net, t)
                    IN  \A j \in 0..(net.num_splits - 1) :
                            Route(cfg, j, t) = Route(cfg, j, x) =>
                                Columns(other, j * S, (j + 1) * S)
                                    = Columns(out, j * S, (j + 1) * S)

C4_Witness ==
    /\ pc = "called"
    /\ args.kind = "SplitNetwork"
    /\ order = <<>>
    /\ net.num_splits = 2
    /\ \E t \in Inputs :
          /\ Compatible(t)
          /\ Route(net.split_data_configurator, 1, t) = Route(net.split_data_configurator, 1, x)
          /\ Route(net.split_data_configurator, 0, t) # Route(net.split_data_configurator, 0, x)
          /\ Forward(net, t) # out

\* C5: DeepSet with a pooling_fun string other than "mean" and "max" fails
\* at construction and leaves no network; DeepSet with default arguments
\* is constructed.
C5_InvalidPoolingFailsAtConstruction ==
    (args.kind = "DeepSet") =>
        /\ args.a.pooling_fun \notin {"mean", "max"} => (pc = "error" /\ net = NoNet)
        /\ args.a = DeepSetDefaults => (pc # "error" /\ net.cls = "DeepSet")

C5_Witness ==
    /\ args.kind = "DeepSet"
    /\ args.a.pooling_fun = "invalid_name"
    /\ args.a.num_equiv = 0
    /\ pc = "error"

\* C6: the output shape is (batch, summary_dim) for DeepSet and
\* SequentialNetwork and (batch, num_seeds * summary_dim) for
\* SetTransformer, whatever the set size or number of time steps.
C6_ShapeIndependentOfSetSize ==
    Called =>
        CASE args.kind \in {"DeepSet", "SequentialNetwork"} ->
                Shape2(out) = <<Len(x), args.a.summary_dim>>
          [] args.kind = "SetTransformer" ->
                Shape2(out) = <<Len(x), args.a.num_seeds * args.a.summary_dim>>
          [] OTHER -> TRUE

C6_Witness ==
    /\ pc = "called"
    /\ args.kind = "DeepSet"
    /\ args.a = DeepSetDefaults
    /\ Shape3(x) = <<2, 5, 3>>
    /\ Shape2(out) = <<2, 10>>

\* The InvariantNetwork instantiations a construction performs.
Instantiations ==
    CASE args.kind = "InvariantNetwork" -> 1
      [] args.kind = "SplitNetwork" /\ args.a.network_type = "InvariantNetwork" ->
            IF pc = "error" THEN 1 ELSE args.a.num_splits
      [] OTHER -> 0

\* C7: InvariantNetwork warns once per subclassing event and once per
\* instantiation, and is otherwise DeepSet: same outcome of construction,
\* same composition, same forward result for the same arguments.
C7_DeprecatedAliasDelegates ==
    /\ warnings = subclasses + Instantiations
    /\ (args.kind = "InvariantNetwork") =>
          LET d == DeepSetInit("DeepSet", args.a, 0)
          IN  /\ (pc = "error") = ~d.ok
              /\ d.ok => /\ [net EXCEPT !.cls = "DeepSet"] = d.obj
                         /\ Called => out = DeepSetCall(d.obj, x)

C7_Witness ==
    /\ args.kind = "InvariantNetwork"
    /\ subclasses >= 1
    /\ warnings = 2
    /\ pc = "called"

\* C8: SplitNetwork holds num_splits sub-networks, one constructor call per
\* split index, no instance shared; by default they are DeepSet instances.
C8_IndependentSubNetworks ==
    (args.kind = "SplitNetwork" /\ pc \notin {"idle", "error"}) =>
        /\ Len(net.networks) = args.a.num_splits
        /\ \A i, j \in 1..Len(net.networks) :
              i # j => net.networks[i].id # net.networks[j].id
        /\ \A i \in 1..Len(net.networks) :
              net.networks[i] =
                  NetworkInit(args.a.network_type, args.a.network_kwargs,
                              net.networks[i].id).obj
        /\ args.a.network_type = "InvariantNetwork" =>
              \A i \in 1..Len(net.networks) :
                  [net.networks[i] EXCEPT !.cls = "DeepSet"] =
                      DeepSetInit("DeepSet", args.a.network_kwargs, net.networks[i].id).obj

C8_Witness ==
    /\ args.kind = "SplitNetwork"
    /\ pc = "built"
    /\ args.a.network_type = "InvariantNetwork"
    /\ Len(net.networks) >= 2

\* C9: whatever the order in which the per-split evaluations run, the
\* output equals that of the evaluation in the order 0 .. num_splits-1.
C9_OrderIndependent ==
    (Called /\ order # <<>>) => out = SplitNetworkCall(net, x)

C9_Witness ==
    /\ pc = "called"
    /\ Len(order) >= 2
    /\ order[1] > order[2]
    /\ parts[1] # parts[2]

\* C10: a call leaves the network as constructed, and the first input
\* called again returns the first output, whatever was called in between.
C10_CallsLeaveNetworkUnchanged ==
    [][(pc' \in {"splitting", "called", "recalled"}) =>
          /\ net' = net
          /\ args' = args
          /\ pc' = "recalled" => out2' = out']_vars

C10_Witness ==
    /\ pc = "recalled"
    /\ ncalls >= 3
    /\ out2 = out

====
